---- MODULE Spec2Model ----
(***************************************************************************)
(* A model of cleanup_console_logs.py: the console.log stripper            *)
(* (remove_console_logs), the per-file driver (process_file) and the       *)
(* program entry point (main).                                             *)
(*                                                                         *)
(* Text is a sequence of one-character strings.  Python offsets are        *)
(* 0-based; s[k] of the source is s[k + 1] here.                           *)
(***************************************************************************)
EXTENDS Integers, Sequences, FiniteSets, TLC

(***************************************************************************)
(* Bounds of the explored inputs.                                          *)
(***************************************************************************)
MaxFrags == 4
MaxFairFrags == 3
MaxLines == 3
MaxArgs == 2

(***************************************************************************)
(* Text helpers: the str operations the source uses.                       *)
(***************************************************************************)
CONSOLE == <<"c", "o", "n", "s", "o", "l", "e">>
DOTLOG == <<".", "l", "o", "g">>
\* the literal part of the regular expression r'console\.log\s*\('
TriggerName == CONSOLE \o DOTLOG
KwFunction == <<"f", "u", "n", "c", "t", "i", "o", "n">>
KwConst == <<"c", "o", "n", "s", "t">>
KwLet == <<"l", "e", "t">>
KwVar == <<"v", "a", "r">>

\* what \s of the re module and str.strip() treat as whitespace (ASCII part)
ReWhitespace == {" ", "\t", "\n", "\r", "\f"}
\* the characters line 46 skips after the closing parenthesis
TrailingSkip == {" ", "\t", "\n"}

\* s[a:b] of Python for 0 <= a, b (0-based, b exclusive, clipped to the text)
Slice(s, a, b) ==
  IF a >= b \/ a >= Len(s) THEN <<>>
  ELSE SubSeq(s, a + 1, IF b > Len(s) THEN Len(s) ELSE b)

\* s[p:].startswith(t)
HasAt(s, p, t) ==
  /\ p >= 0
  /\ p + Len(t) <= Len(s)
  /\ \A k \in 1..Len(t) : s[p + k] = t[k]

StartsWith(s, t) == HasAt(s, 0, t)

EndsWith(s, t) == Len(t) <= Len(s) /\ HasAt(s, Len(s) - Len(t), t)

\* t in s
Contains(s, t) == \E p \in 0..Len(s) : HasAt(s, p, t)

RECURSIVE SkipWhile(_, _, _)
\* the first offset q >= p with s[q] not in set (Len(s) when there is none)
SkipWhile(s, p, set) ==
  IF p < Len(s) /\ s[p + 1] \in set THEN SkipWhile(s, p + 1, set) ELSE p

\* re.match(r'console\.log\s*\(', s, p): the end offset of the match, or -1
MatchAt(s, p) ==
  IF ~HasAt(s, p, TriggerName) THEN -1
  ELSE LET q == SkipWhile(s, p + Len(TriggerName), ReWhitespace)
       IN  IF q < Len(s) /\ s[q + 1] = "(" THEN q + 1 ELSE -1

RECURSIVE FindIterFrom(_, _, _)
\* re.finditer scanning at offset p, the previous match ending at offset from:
\* the matches are the leftmost ones and do not overlap
FindIterFrom(s, p, from) ==
  IF p >= Len(s) THEN <<>>
  ELSE IF p >= from /\ MatchAt(s, p) # -1
       THEN <<[start |-> p, end |-> MatchAt(s, p)]>> \o FindIterFrom(s, p + 1, MatchAt(s, p))
       ELSE FindIterFrom(s, p + 1, from)

\* list(re.finditer(r'console\.log\s*\(', result))
FindIter(s) == FindIterFrom(s, 0, 0)

RECURSIVE Reversed(_)
Reversed(q) == IF q = <<>> THEN <<>> ELSE Reversed(Tail(q)) \o <<Head(q)>>

RECURSIVE SplitFrom(_, _, _)
\* the lines of s from the line that starts at offset a, scanning at offset p
SplitFrom(s, a, p) ==
  IF p >= Len(s) THEN <<Slice(s, a, Len(s))>>
  ELSE IF s[p + 1] = "\n" THEN <<Slice(s, a, p)>> \o SplitFrom(s, p + 1, p + 1)
  ELSE SplitFrom(s, a, p + 1)

\* s.split('\n'): always at least one line
SplitLines(s) == SplitFrom(s, 0, 0)

RECURSIVE JoinLines(_)
\* '\n'.join(lines)
JoinLines(lines) ==
  IF lines = <<>> THEN <<>>
  ELSE IF Len(lines) = 1 THEN lines[1]
  ELSE lines[1] \o <<"\n">> \o JoinLines(Tail(lines))

RECURSIVE RStripEnd(_, _)
\* the length of s[:n] without its trailing whitespace
RStripEnd(s, n) ==
  IF n > 0 /\ s[n] \in ReWhitespace THEN RStripEnd(s, n - 1) ELSE n

\* line.strip()
Strip(s) == Slice(s, SkipWhile(s, 0, ReWhitespace), RStripEnd(s, Len(s)))

\* lines 64-65: Python reads "a and b and not a or c" as "(a and b and not a) or c"
SkipsAsObject(stripped) ==
  \/ /\ StartsWith(stripped, <<"{">>)
     /\ EndsWith(stripped, <<"}", ",">>)
     /\ ~StartsWith(stripped, <<"{">>)
  \/ Contains(stripped, KwFunction)

\* lines 67-68
SkipsAsArray(stripped) ==
  /\ StartsWith(stripped, <<"[">>)
  /\ EndsWith(stripped, <<"]", ",">>)
  /\ ~Contains(stripped, KwConst)
  /\ ~Contains(stripped, KwLet)
  /\ ~Contains(stripped, KwVar)

\* lines 61-71: the lines the loop appends to cleaned_lines
KeepsLine(line) ==
  \A stripped \in {Strip(line)} : ~SkipsAsObject(stripped) /\ ~SkipsAsArray(stripped)

RECURSIVE CleanedLines(_)
CleanedLines(lines) ==
  IF lines = <<>> THEN <<>>
  ELSE (IF KeepsLine(Head(lines)) THEN <<Head(lines)>> ELSE <<>>)
         \o CleanedLines(Tail(lines))

\* lines 58-73: the value remove_console_logs returns for the buffer after the loop
LineFilter(s) ==
  CHOOSE joined \in {JoinLines(CleanedLines(lines)) : lines \in {SplitLines(s)}} : TRUE

\* RemovalEnd taking every ";" after the call instead of at most one
RemovalEndEverySemicolon(s, i) ==
  SkipWhile(s, SkipWhile(s, i + 1, TrailingSkip), {";"})

\* lines 43-49: the end of the removal for a closing parenthesis at offset i
RemovalEnd(s, i) ==
  LET e == SkipWhile(s, i + 1, TrailingSkip)
  IN  IF e < Len(s) /\ s[e + 1] = ";" THEN e + 1 ELSE e

\* line 52: result[:start] + result[end:]
Splice(s, a, b) == Slice(s, 0, a) \o Slice(s, b, Len(s))

RECURSIVE ReadFrom(_, _)
\* the text read from offset p of the stored text on
ReadFrom(s, p) ==
  IF p >= Len(s) THEN <<>>
  ELSE IF HasAt(s, p, <<"\r", "\n">>) THEN <<"\n">> \o ReadFrom(s, p + 2)
  ELSE IF s[p + 1] = "\r" THEN <<"\n">> \o ReadFrom(s, p + 1)
  ELSE <<s[p + 1]>> \o ReadFrom(s, p + 1)

\* open(file_path, 'r'): universal newlines, "\r\n" and "\r" are read as "\n"
ReadTranslate(s) == ReadFrom(s, 0)

\* os.linesep of the platform the script runs on (POSIX)
linesep == <<"\n">>

RECURSIVE WriteTranslate(_)
\* open(file_path, 'w'): every "\n" is written as os.linesep
WriteTranslate(s) ==
  IF s = <<>> THEN <<>>
  ELSE (IF s[1] = "\n" THEN linesep ELSE <<s[1]>>) \o WriteTranslate(Tail(s))

(***************************************************************************)
(* The explored inputs.                                                    *)
(***************************************************************************)
RECURSIVE Concat(_)
Concat(parts) == IF parts = <<>> THEN <<>> ELSE Head(parts) \o Concat(Tail(parts))

SeqsUpTo(S, n) == UNION {[1..k -> S] : k \in 0..n}

\* pieces of text around the trigger: up to MaxFrags of them are concatenated
Fragments ==
  { TriggerName \o <<"(">>, TriggerName, CONSOLE, DOTLOG \o <<"(">>,
    <<"(">>, <<")">>, <<";">>, <<"\n">> }

FragmentInputs == {Concat(f) : f \in SeqsUpTo(Fragments, MaxFrags)}

\* the inputs of the specification with fairness
FairInputs == {Concat(f) : f \in SeqsUpTo(Fragments, MaxFairFrags)}

\* one console.log call: the arguments are up to MaxArgs of these pieces
ArgPieces ==
  { <<"b", "a", "r", "(", "1", ",", "2", ")", ",", " ", "b", "a", "z", "(", "3", ")">>,
    <<"\n", " ", " ", "\"", "v", "a", "l", "u", "e", ":", "\"", ",", " ", "x", "\n">>,
    <<"x">>,
    <<"(">>,
    <<")">> }

CallInputs ==
  { TriggerName \o ws \o <<"(">> \o Concat(a) \o <<")">> \o gap \o tail :
      ws \in {<<>>, <<" ">>},
      a \in SeqsUpTo(ArgPieces, MaxArgs),
      gap \in {<<>>, <<" ", "\n", "\t">>},
      tail \in {<<";">>, <<>>, <<";", ";">>, <<"\f", ";">>} }

\* whole lines: up to MaxLines of them are joined by "\n"
LineShapes ==
  { <<"x">>,
    <<"{", "x", "}", ",">>,
    <<" ", "[", "x", "]", ",", "\t">>,
    <<"[">> \o KwConst \o <<"]", ",">>,
    <<"[">> \o KwLet \o <<"]", ",">>,
    <<"[">> \o KwVar \o <<"]", ",">>,
    KwFunction,
    <<"{">> \o KwFunction \o <<"}", ",">>,
    TriggerName,
    <<"(", "x", ")">> }

LineInputs == {JoinLines(l) : l \in SeqsUpTo(LineShapes, MaxLines) \ {<<>>}}

Inputs == FragmentInputs \cup CallInputs \cup LineInputs

\* what main finds stored under a listed path
MainContents ==
  { <<"x">>,
    <<"x">> \o TriggerName \o <<"(", "f", "(", "x", ")", ")", ";">>,
    <<"a", "\r", "\n">> \o TriggerName \o <<"(", "\r", "\n", "b">> }

(***************************************************************************)
(* The program.                                                            *)
(***************************************************************************)
\* lines 98-106 (the directory part of each path is left out)
files_to_clean ==
  << "DataAnalysis.tsx", "MultiFileAnalysis.tsx", "DataPreview.tsx",
     "dataPreviewUtils.ts", "dataAnalysisUtils.ts", "ExcelPreview.tsx",
     "MainLayout.tsx" >>

VARIABLES
  pc,               \* the statement the program is at
  idx,              \* main: how many entries of files_to_clean the loop has taken
  cleaned_count,    \* main: cleaned_count
  output,           \* the lines printed so far
  calls,            \* the calls of process_file that returned: [path, ret]
  run,              \* how many times process_file was started on file_path
  file_path,        \* process_file: file_path
  stored,           \* the text stored under file_path
  content,          \* process_file: content / original_content
  cleaned_content,  \* process_file: cleaned_content
  ret,              \* process_file: the value returned
  result,           \* remove_console_logs: result
  previous_length,  \* remove_console_logs: previous_length
  matches,          \* remove_console_logs: what reversed(matches) still yields
  start,            \* remove_console_logs: start
  i,                \* remove_console_logs: i
  paren_count       \* remove_console_logs: paren_count

mainVars == <<idx, cleaned_count>>
fileVars == <<file_path, stored, content, cleaned_content, ret>>
loopVars == <<result, previous_length, matches, start, i, paren_count>>
vars == <<pc, idx, cleaned_count, output, calls, run, file_path, stored, content,
          cleaned_content, ret, result, previous_length, matches, start, i, paren_count>>

\* the locals of process_file and remove_console_logs before they are assigned
NoLocals ==
  /\ content = <<>>
  /\ cleaned_content = <<>>
  /\ ret = FALSE
  /\ result = <<>>
  /\ previous_length = 0
  /\ matches = <<>>
  /\ start = 0
  /\ i = 0
  /\ paren_count = 0

Line(kind, path) == [kind |-> kind, path |-> path, count |-> 0]

\* line 93-95: an exception inside the try block
Failed ==
  /\ output' = Append(output, Line("Error processing", file_path))
  /\ ret' = FALSE
  /\ calls' = Append(calls, [path |-> file_path, ret |-> FALSE])
  /\ pc' = "pf_return"

\* lines 78-79: open(file_path, 'r') or f.read() raises
ReadFails ==
  /\ pc = "pf_read"
  /\ Failed
  /\ UNCHANGED <<mainVars, run, file_path, stored, content, cleaned_content, loopVars>>

\* lines 78-82, 19, 22: the file is read, remove_console_logs is entered
ReadFile ==
  /\ pc = "pf_read"
  /\ content' = ReadTranslate(stored)
  /\ result' = ReadTranslate(stored)
  /\ previous_length' = 0
  /\ pc' = "while"
  /\ UNCHANGED <<mainVars, output, calls, run, file_path, stored, cleaned_content, ret,
                 matches, start, i, paren_count>>

\* BeginPass without the update of previous_length
BeginPassStaleLength ==
  /\ pc = "while"
  /\ Len(result) # previous_length
  /\ matches' = Reversed(FindIter(result))
  /\ pc' = "for"
  /\ UNCHANGED <<mainVars, output, calls, run, fileVars, result, previous_length, start, i,
                 paren_count>>

\* BeginPass taking the matches in document order
BeginPassForward ==
  /\ pc = "while"
  /\ Len(result) # previous_length
  /\ previous_length' = Len(result)
  /\ matches' = FindIter(result)
  /\ pc' = "for"
  /\ UNCHANGED <<mainVars, output, calls, run, fileVars, result, start, i, paren_count>>

\* lines 23-27: the loop test holds, a pass begins
BeginPass ==
  /\ pc = "while"
  /\ Len(result) # previous_length
  /\ previous_length' = Len(result)
  /\ matches' = Reversed(FindIter(result))
  /\ pc' = "for"
  /\ UNCHANGED <<mainVars, output, calls, run, fileVars, result, start, i, paren_count>>

\* line 23 fails, lines 58-73: the lines are filtered and the text is returned
EndLoop ==
  /\ pc = "while"
  /\ Len(result) = previous_length
  /\ cleaned_content' = LineFilter(result)
  /\ pc' = "pf_compare"
  /\ UNCHANGED <<mainVars, output, calls, run, file_path, stored, content, ret, loopVars>>

\* lines 29-34: the next match of reversed(matches)
NextMatch ==
  /\ pc = "for"
  /\ matches # <<>>
  /\ start' = Head(matches).start
  /\ paren_count' = 0
  /\ i' = Head(matches).end - 1
  /\ matches' = Tail(matches)
  /\ pc' = "scan"
  /\ UNCHANGED <<mainVars, output, calls, run, fileVars, result, previous_length>>

\* line 29: reversed(matches) is exhausted, the pass ends
EndPass ==
  /\ pc = "for"
  /\ matches = <<>>
  /\ pc' = "while"
  /\ UNCHANGED <<mainVars, output, calls, run, fileVars, loopVars>>

\* lines 36-38, 54
ScanOpen ==
  /\ pc = "scan"
  /\ i < Len(result)
  /\ result[i + 1] = "("
  /\ paren_count' = paren_count + 1
  /\ i' = i + 1
  /\ UNCHANGED <<pc, mainVars, output, calls, run, fileVars, result, previous_length,
                 matches, start>>

\* lines 36, 39-41, 54: a closing parenthesis that is not the matching one
ScanClose ==
  /\ pc = "scan"
  /\ i < Len(result)
  /\ result[i + 1] = ")"
  /\ paren_count - 1 # 0
  /\ paren_count' = paren_count - 1
  /\ i' = i + 1
  /\ UNCHANGED <<pc, mainVars, output, calls, run, fileVars, result, previous_length,
                 matches, start>>

\* lines 36, 39-53: the matching closing parenthesis, the statement is removed
RemoveMatch ==
  /\ pc = "scan"
  /\ i < Len(result)
  /\ result[i + 1] = ")"
  /\ paren_count - 1 = 0
  /\ paren_count' = paren_count - 1
  /\ result' = Splice(result, start, RemovalEnd(result, i))
  /\ pc' = "for"
  /\ UNCHANGED <<mainVars, output, calls, run, fileVars, previous_length, matches, start, i>>

\* lines 36-37, 39, 54: any other character
ScanOther ==
  /\ pc = "scan"
  /\ i < Len(result)
  /\ result[i + 1] \notin {"(", ")"}
  /\ i' = i + 1
  /\ UNCHANGED <<pc, mainVars, output, calls, run, fileVars, result, previous_length,
                 matches, start, paren_count>>

\* line 36 fails: the end of the buffer, no matching parenthesis
ScanEnd ==
  /\ pc = "scan"
  /\ i >= Len(result)
  /\ pc' = "for"
  /\ UNCHANGED <<mainVars, output, calls, run, fileVars, loopVars>>

\* WriteFile without the comparison of line 84
WriteFileAlways ==
  /\ pc = "pf_compare"
  /\ stored' = WriteTranslate(cleaned_content)
  /\ output' = Append(output, Line("Cleaned", file_path))
  /\ ret' = TRUE
  /\ calls' = Append(calls, [path |-> file_path, ret |-> TRUE])
  /\ pc' = "pf_return"
  /\ UNCHANGED <<mainVars, run, file_path, content, cleaned_content, loopVars>>

\* lines 84-88: the text changed, the file is written
WriteFile ==
  /\ pc = "pf_compare"
  /\ cleaned_content # content
  /\ stored' = WriteTranslate(cleaned_content)
  /\ output' = Append(output, Line("Cleaned", file_path))
  /\ ret' = TRUE
  /\ calls' = Append(calls, [path |-> file_path, ret |-> TRUE])
  /\ pc' = "pf_return"
  /\ UNCHANGED <<mainVars, run, file_path, content, cleaned_content, loopVars>>

\* lines 84-85: open(file_path, 'w') raises, the file is as it was
OpenForWriteFails ==
  /\ pc = "pf_compare"
  /\ cleaned_content # content
  /\ Failed
  /\ UNCHANGED <<mainVars, run, file_path, stored, content, cleaned_content, loopVars>>

\* lines 85-86: open(file_path, 'w') has emptied the file, then f.write or the
\* flush on close raises: a proper prefix of the text is stored
TruncatingWriteFails ==
  /\ pc = "pf_compare"
  /\ cleaned_content # content
  /\ \E n \in {0, Len(WriteTranslate(cleaned_content)) - 1} :
       /\ n >= 0
       /\ n < Len(WriteTranslate(cleaned_content))
       /\ stored' = SubSeq(WriteTranslate(cleaned_content), 1, n)
  /\ Failed
  /\ UNCHANGED <<mainVars, run, file_path, content, cleaned_content, loopVars>>

\* lines 84, 89-91
Unchanged ==
  /\ pc = "pf_compare"
  /\ cleaned_content = content
  /\ output' = Append(output, Line("No console.log statements found in", file_path))
  /\ ret' = FALSE
  /\ calls' = Append(calls, [path |-> file_path, ret |-> FALSE])
  /\ pc' = "pf_return"
  /\ UNCHANGED <<mainVars, run, file_path, stored, content, cleaned_content, loopVars>>

\* a new activation of process_file: its locals are not assigned yet
NewCall ==
  /\ content' = <<>>
  /\ cleaned_content' = <<>>
  /\ ret' = FALSE
  /\ result' = <<>>
  /\ previous_length' = 0
  /\ matches' = <<>>
  /\ start' = 0
  /\ i' = 0
  /\ paren_count' = 0

\* process_file is called once more on the file it has just cleaned
Rerun ==
  /\ pc = "pf_return"
  /\ run = 1
  /\ ret
  /\ run' = 2
  /\ NewCall
  /\ pc' = "pf_read"
  /\ UNCHANGED <<mainVars, output, calls, file_path, stored>>

NumFiles == Len(files_to_clean)

\* lines 109-110, 113-114: os.path.exists(file_path) is False
FileMissing ==
  /\ pc = "main_for"
  /\ idx < NumFiles
  /\ file_path' = files_to_clean[idx + 1]
  /\ output' = Append(output, Line("File not found", files_to_clean[idx + 1]))
  /\ idx' = idx + 1
  /\ UNCHANGED <<pc, cleaned_count, calls, run, stored, content, cleaned_content, ret, loopVars>>

\* lines 109-111: os.path.exists(file_path) is True, process_file is called
FileExists ==
  /\ pc = "main_for"
  /\ idx < NumFiles
  /\ file_path' = files_to_clean[idx + 1]
  /\ \E s \in MainContents : stored' = s
  /\ run' = 1
  /\ NewCall
  /\ pc' = "pf_read"
  /\ UNCHANGED <<mainVars, output, calls>>

\* AfterCall counting every call, whatever it returned
AfterCallCountsAll ==
  /\ pc = "pf_return"
  /\ cleaned_count' = cleaned_count + 1
  /\ idx' = idx + 1
  /\ pc' = "main_for"
  /\ UNCHANGED <<output, calls, run, fileVars, loopVars>>

\* lines 111-112: process_file has returned
AfterCall ==
  /\ pc = "pf_return"
  /\ cleaned_count' = IF ret THEN cleaned_count + 1 ELSE cleaned_count
  /\ idx' = idx + 1
  /\ pc' = "main_for"
  /\ UNCHANGED <<output, calls, run, fileVars, loopVars>>

\* lines 109, 116: the list is exhausted, the summary is printed
Summary ==
  /\ pc = "main_for"
  /\ idx = NumFiles
  /\ output' = Append(output, [kind |-> "Cleaned files total", path |-> "",
                               count |-> cleaned_count])
  /\ pc' = "exit"
  /\ UNCHANGED <<mainVars, calls, run, fileVars, loopVars>>

\* remove_console_logs, lines 11-73
RemoveConsoleLogs ==
  \/ BeginPass
  \/ EndLoop
  \/ NextMatch
  \/ EndPass
  \/ ScanOpen
  \/ ScanClose
  \/ RemoveMatch
  \/ ScanOther
  \/ ScanEnd

\* process_file, lines 75-95
ProcessFile ==
  \/ ReadFails
  \/ ReadFile
  \/ RemoveConsoleLogs
  \/ WriteFile
  \/ OpenForWriteFails
  \/ TruncatingWriteFails
  \/ Unchanged

(***************************************************************************)
(* Spec: process_file on one stored text, and once more on what it wrote.  *)
(***************************************************************************)
Init ==
  /\ pc = "pf_read"
  /\ idx = 0
  /\ cleaned_count = 0
  /\ output = <<>>
  /\ calls = <<>>
  /\ run = 1
  /\ file_path = files_to_clean[1]
  /\ stored \in Inputs
  /\ NoLocals

Next == ProcessFile \/ Rerun

Spec == Init /\ [][Next]_vars

(***************************************************************************)
(* FairSpec: the same program on fewer inputs; a step is taken whenever    *)
(* one is possible (the program is sequential and is never suspended).     *)
(***************************************************************************)
InitFair == Init /\ stored \in FairInputs

FairSpec == InitFair /\ [][Next]_vars /\ WF_vars(Next)

(***************************************************************************)
(* SpecMain: main over the fixed list of files.                            *)
(***************************************************************************)
InitMain ==
  /\ pc = "main_for"
  /\ idx = 0
  /\ cleaned_count = 0
  /\ output = <<>>
  /\ calls = <<>>
  /\ run = 0
  /\ file_path = ""
  /\ stored = <<>>
  /\ NoLocals

NextMain == FileMissing \/ FileExists \/ ProcessFile \/ AfterCall \/ Summary

SpecMain == InitMain /\ [][NextMain]_vars

FairSpecMain == SpecMain /\ WF_vars(NextMain)

(***************************************************************************)
(* Vocabulary of the properties.                                           *)
(***************************************************************************)
Last(q) == q[Len(q)]

\* the number of "(" minus the number of ")" in s[a..b] (0-based, inclusive)
Depth(s, a, b) ==
  Cardinality({k \in a..b : k < Len(s) /\ s[k + 1] = "("})
    - Cardinality({k \in a..b : k < Len(s) /\ s[k + 1] = ")"})

\* the ")" at offset j is the depth-matching one of the "(" at offset o
Closes(s, o, j) ==
  /\ o <= j
  /\ j < Len(s)
  /\ s[j + 1] = ")"
  /\ Depth(s, o, j) = 0
  /\ \A k \in o..(j - 1) : Depth(s, o, k) > 0

HasMatchingParen(s, o) == \E j \in o..(Len(s) - 1) : Closes(s, o, j)

\* the trigger occurrences of s, as offsets of their first character
Triggers(s) == {p \in 0..(Len(s) - 1) : MatchAt(s, p) # -1}

BalancedTrigger(s, p) == HasMatchingParen(s, MatchAt(s, p) - 1)

RECURSIVE BalancedFrom(_, _, _)
\* s[p:] closes the d parentheses open before offset p and opens no unclosed one
BalancedFrom(s, p, d) ==
  IF p >= Len(s) THEN d = 0
  ELSE IF s[p + 1] = "(" THEN BalancedFrom(s, p + 1, d + 1)
  ELSE IF s[p + 1] = ")" THEN d > 0 /\ BalancedFrom(s, p + 1, d - 1)
  ELSE BalancedFrom(s, p + 1, d)

\* correctly balanced parentheses overall
Balanced(s) == BalancedFrom(s, 0, 0)

InLoop == pc \in {"while", "for", "scan"}

(***************************************************************************)
(* C1: a text with no occurrence of the trigger is returned unchanged, and *)
(* process_file then reports the file as unmodified and returns False.     *)
(***************************************************************************)
C1_NonMatchPreservation ==
  /\ (pc = "pf_compare" /\ Triggers(content) = {}) => cleaned_content = content
  /\ (pc = "pf_return" /\ Triggers(content) = {} /\ Last(output).kind # "Error processing")
        => (Last(output).kind = "No console.log statements found in" /\ ~ret)

(***************************************************************************)
(* C2: remove_console_logs applied to its own output changes nothing: in   *)
(* the second run, on the text the first run wrote, the cleaned text       *)
(* equals the text read.                                                   *)
(***************************************************************************)
C2_Idempotence == (run = 2 /\ pc = "pf_compare") => cleaned_content = content

(***************************************************************************)
(* C3: when every trigger occurrence of the input has a matching closing   *)
(* parenthesis, the returned text holds no trigger occurrence.             *)
(***************************************************************************)
C3_ZeroTriggersLeft ==
  (pc = "pf_compare" /\ \A p \in Triggers(content) : BalancedTrigger(content, p))
     => Triggers(cleaned_content) = {}

(***************************************************************************)
(* C4: the removal loop terminates for every input: once entered it        *)
(* reaches the end of the loop, the scan never passes the end of the       *)
(* buffer, no step of the loop makes the buffer longer, and a pass that    *)
(* leaves the length unchanged is the last one.                            *)
(***************************************************************************)
C4_Termination ==
  /\ (pc = "while") ~> (pc = "pf_compare")
  /\ [](pc = "scan" => i <= Len(result))
  /\ [][(InLoop /\ InLoop') => Len(result') <= Len(result)]_vars
  /\ [][(pc = "while" /\ Len(result) = previous_length) => pc' = "pf_compare"]_vars

\* the loop has ended after a pass that removed a statement and a scan that ran
\* to the end of the buffer without finding the matching parenthesis
C4_Witness ==
  /\ pc = "pf_compare"
  /\ Len(result) < Len(content)
  /\ \E p \in Triggers(result) : ~BalancedTrigger(result, p)

(***************************************************************************)
(* C5: for a trigger occurrence with no matching closing parenthesis,      *)
(* an error is reported for the file, and the text after the loop still    *)
(* holds an occurrence without a matching parenthesis.                     *)
(***************************************************************************)
C5_UnbalancedReported ==
  (pc = "pf_return" /\ \E p \in Triggers(content) : ~BalancedTrigger(content, p))
     => /\ Last(output).kind = "Error processing"
        /\ \E p \in Triggers(result) : ~BalancedTrigger(result, p)

(***************************************************************************)
(* C6: a text that is exactly one console.log call with balanced           *)
(* arguments followed by ";" is cleaned to the empty text; and every       *)
(* removal deletes the text from the start of a trigger through the        *)
(* depth-matching ")", the spaces, tabs and newlines after it, and then    *)
(* at most one ";", and nothing else.                                      *)
(***************************************************************************)
SingleCall(s) ==
  /\ Triggers(s) = {0}
  /\ \E j \in 0..(Len(s) - 1) :
       /\ Closes(s, MatchAt(s, 0) - 1, j)
       /\ Slice(s, j + 1, Len(s)) = <<";">>

\* s without t: t begins with a trigger at offset a and is a Removal Region
RemovalRegionAt(s, a, t) ==
  /\ MatchAt(s, a) # -1
  /\ \E j \in a..(Len(s) - 1) :
       /\ Closes(s, MatchAt(s, a) - 1, j)
       /\ \E e \in (j + 1)..Len(s) :
            /\ \A k \in (j + 1)..(e - 1) : s[k + 1] \in {" ", "\t", "\n"}
            /\ e < Len(s) => s[e + 1] \notin {" ", "\t", "\n"}
            /\ LET f == IF e < Len(s) /\ s[e + 1] = ";" THEN e + 1 ELSE e
               IN  t = Slice(s, 0, a) \o Slice(s, f, Len(s))

C6_BalancedRemoval ==
  /\ [](pc = "pf_compare" /\ SingleCall(content) => cleaned_content = <<>>)
  /\ [][(InLoop /\ InLoop' /\ result' # result)
          => \E a \in 0..Len(result) : RemovalRegionAt(result, a, result')]_vars

\* a single call over several lines with nested calls has been cleaned
C6_Witness ==
  /\ pc = "pf_compare"
  /\ SingleCall(content)
  /\ Contains(content, <<"\n">>)
  /\ \E k \in 0..Len(content) : Depth(content, 0, k) > 1
  /\ cleaned_content = <<>>

(***************************************************************************)
(* C7 as stated: process_file changes the stored file if and only if the   *)
(* cleaned text differs from the text read, returns True and prints        *)
(* "Cleaned" exactly when it did, and leaves the file alone and returns    *)
(* False when the texts are equal.                                         *)
(***************************************************************************)
C7_WriteIffChanged ==
  [][pc = "pf_compare" =>
       /\ (stored' # stored) <=> (cleaned_content # content)
       /\ ret' <=> (stored' # stored)
       /\ ret' <=> (Last(output').kind = "Cleaned")
       /\ (cleaned_content = content) => (stored' = stored /\ ~ret')]_vars

(***************************************************************************)
(* C7 as amended: the stored file changes only if the cleaned text differs *)
(* from the text read; True is returned and "Cleaned" printed exactly when *)
(* the write of the cleaned text completed; equal texts leave the file     *)
(* alone and return False; when the texts differ and opening or writing    *)
(* the file raises, "Error processing" is printed, False is returned and   *)
(* the file is as it was or holds a proper prefix of the cleaned text.     *)
(***************************************************************************)
C7_WriteOnlyOnChange ==
  [][pc = "pf_compare" =>
       /\ (stored' # stored) => (cleaned_content # content)
       /\ ret' <=> (cleaned_content # content /\ stored' = WriteTranslate(cleaned_content))
       /\ ret' <=> (Last(output').kind = "Cleaned")
       /\ (cleaned_content = content)
            => /\ stored' = stored
               /\ ~ret'
               /\ Last(output').kind = "No console.log statements found in"
       /\ (cleaned_content # content /\ ~ret')
            => /\ Last(output').kind = "Error processing"
               /\ \/ stored' = stored
                  \/ \E n \in 0..(Len(WriteTranslate(cleaned_content)) - 1) :
                       stored' = SubSeq(WriteTranslate(cleaned_content), 1, n)]_vars

\* a changed text has been written and True returned
C7_Witness ==
  /\ pc = "pf_return"
  /\ ret
  /\ cleaned_content # content
  /\ stored = WriteTranslate(cleaned_content)
  /\ Last(output).kind = "Cleaned"

(***************************************************************************)
(* C8: whatever files are missing or fail, main handles every listed path  *)
(* once and in list order, never counts a missing or failing file, and     *)
(* always reaches the summary line, whose count is the number of calls of  *)
(* process_file that returned True.                                        *)
(***************************************************************************)
TrueReturns == {k \in 1..Len(calls) : calls[k].ret}

C8_Handled ==
  /\ Len(output) <= NumFiles + 1
  /\ \A k \in 1..Len(output) : k <= NumFiles => output[k].path = files_to_clean[k]
  /\ \A j, k \in 1..Len(calls) : j < k => calls[j].path # calls[k].path
  /\ \A k \in 1..Len(output) :
       output[k].kind \in {"File not found", "Error processing"}
          => \A j \in TrueReturns : calls[j].path # output[k].path
  /\ pc = "exit" =>
       /\ Len(output) = NumFiles + 1
       /\ Last(output).kind = "Cleaned files total"
       /\ Last(output).count = Cardinality(TrueReturns)
       /\ Last(output).count = Cardinality({k \in 1..NumFiles : output[k].kind = "Cleaned"})

C8_PerFileFailuresNonFatal == <>(pc = "exit") /\ []C8_Handled

\* the summary is printed after a missing file, a failing file and a cleaned file
C8_Witness ==
  /\ pc = "exit"
  /\ \E k \in 1..NumFiles : output[k].kind = "File not found"
  /\ \E k \in 1..NumFiles : output[k].kind = "Error processing"
  /\ Last(output).count >= 1

(***************************************************************************)
(* C9: the returned text is the text after the loop without the lines      *)
(* whose trimmed content starts with "{" and ends with "}," and holds no   *)
(* "function", or starts with "[" and ends with "]," and holds none of     *)
(* "const", "let", "var"; all other lines are kept, in order.              *)
(***************************************************************************)
IsOrphanLine(line) ==
  \E t \in {Strip(line)} :
     \/ /\ StartsWith(t, <<"{">>)
        /\ EndsWith(t, <<"}", ",">>)
        /\ ~Contains(t, KwFunction)
     \/ /\ StartsWith(t, <<"[">>)
        /\ EndsWith(t, <<"]", ",">>)
        /\ ~Contains(t, KwConst) /\ ~Contains(t, KwLet) /\ ~Contains(t, KwVar)

NotOrphanLine(line) == ~IsOrphanLine(line)

C9_OrphanLineFilter ==
  pc = "pf_compare"
     => cleaned_content = JoinLines(SelectSeq(SplitLines(result), NotOrphanLine))

(***************************************************************************)
(* C10: when the text read has balanced parentheses, the buffer has        *)
(* balanced parentheses after every removal, and the offsets of every      *)
(* match of the pass that is not processed yet still delimit a trigger.    *)
(***************************************************************************)
C10_BalancePreserved ==
  (InLoop /\ Balanced(content))
     => /\ Balanced(result)
        /\ \A k \in 1..Len(matches) : MatchAt(result, matches[k].start) = matches[k].end
        /\ pc = "scan" => MatchAt(result, start) # -1

\* a removal has been made in a balanced text while an earlier match is pending
C10_Witness ==
  /\ pc = "for"
  /\ Balanced(content)
  /\ matches # <<>>
  /\ result # content

====
